---- MODULE Spec2Model ----
(***************************************************************************)
(* A model of normflow's scalar flow modules (src/nn/scalar/modules_.py):  *)
(* the elementary bijections, SplineNet_, the DistConvertor_ module list   *)
(* and MaskedWrapperNet_.                                                  *)
(*                                                                         *)
(* Real numbers are modelled by terms: integers are computed with, and the *)
(* transcendental functions of torch (exp, log, cosh, tanh, atanh) and the *)
(* spline evaluator stay uninterpreted symbols, folded only where the      *)
(* value is exact (exp(0) = 1, log(1) = 0, ...).  A tensor is a shape and  *)
(* its elements in row-major order.                                        *)
(***************************************************************************)
EXTENDS Integers, Sequences, FiniteSets, TLC

\* ------------------------------------------------------------------ bounds
\* Largest batch size (first axis) of a sample.
MaxBatch == 2
\* Largest number of sites (second axis) of a sample.
MaxSites == 2
\* Largest number of MaskedWrapperNet_ objects constructed in one run.
MaxWrappers == 2
\* Largest knots_len given to DistConvertor_.
MaxKnots == 3

\* ------------------------------------------------------------------- terms
Num(k) == [op |-> "num", n |-> k, a |-> <<>>]

IsNum(t) == t.op = "num"

Term(f, args) == [op |-> f, n |-> 0, a |-> args]

Add(s, t) ==
  IF IsNum(s) /\ IsNum(t) THEN Num(s.n + t.n)
  ELSE IF s = Num(0) THEN t
  ELSE IF t = Num(0) THEN s
  ELSE Term("add", <<s, t>>)

Neg(t) == IF IsNum(t) THEN Num(0 - t.n) ELSE Term("neg", <<t>>)

Sub(s, t) ==
  IF IsNum(s) /\ IsNum(t) THEN Num(s.n - t.n)
  ELSE IF t = Num(0) THEN s
  ELSE Term("sub", <<s, t>>)

Mul(s, t) ==
  IF IsNum(s) /\ IsNum(t) THEN Num(s.n * t.n)
  ELSE IF s = Num(0) \/ t = Num(0) THEN Num(0)
  ELSE IF s = Num(1) THEN t
  ELSE IF t = Num(1) THEN s
  ELSE Term("mul", <<s, t>>)

Div(s, t) ==
  IF t = Num(1) THEN s
  ELSE IF t = Num(0) THEN Term("div", <<s, t>>)
  ELSE IF s = Num(0) THEN Num(0)
  ELSE IF s = t THEN Num(1)
  ELSE IF IsNum(s) /\ IsNum(t) /\ s.n % (IF t.n < 0 THEN 0 - t.n ELSE t.n) = 0
    THEN Num((IF t.n < 0 THEN 0 - s.n ELSE s.n) \div (IF t.n < 0 THEN 0 - t.n ELSE t.n))
  ELSE IF s.op = "mul" /\ s.a[2] = t THEN s.a[1]
  ELSE Term("div", <<s, t>>)

\* torch.exp, torch.log, torch.cosh, torch.tanh, torch.atanh on one element
Exp(t) == IF t = Num(0) THEN Num(1) ELSE Term("exp", <<t>>)

Log(t) == IF t = Num(1) THEN Num(0) ELSE Term("log", <<t>>)

Cosh(t) == IF t = Num(0) THEN Num(1) ELSE Term("cosh", <<t>>)

TanhOf(t) == IF t = Num(0) THEN Num(0) ELSE Term("tanh", <<t>>)

AtanhOf(t) == IF t = Num(0) THEN Num(0) ELSE Term("atanh", <<t>>)

\* torch.sgn on one element
Sgn(t) ==
  IF IsNum(t) THEN Num(IF t.n > 0 THEN 1 ELSE IF t.n < 0 THEN 0 - 1 ELSE 0)
  ELSE Term("sgn", <<t>>)

\* ----------------------------------------------------------------- tensors
RECURSIVE Prod(_)
Prod(s) == IF s = <<>> THEN 1 ELSE Head(s) * Prod(Tail(s))

Tensor(shape, v) == [shape |-> shape, v |-> v]

\* a Python number: a tensor of rank 0
Scalar(t) == Tensor(<<>>, <<t>>)

\* the outcome of an operation that raises (shapes that do not broadcast)
Raised == Tensor(<<0>>, <<>>)

Full(shape, t) == Tensor(shape, [i \in 1..Prod(shape) |-> t])

\* torch.ones(shape)
Ones(shape) == Full(shape, Num(1))

\* shape padded on the left to rank 2
Pad2(s) == IF Len(s) = 0 THEN <<1, 1>> ELSE IF Len(s) = 1 THEN <<1, s[1]>> ELSE s

Max(i, j) == IF i >= j THEN i ELSE j

Broadcastable(s, t) ==
  \A d \in 1..2 : Pad2(s)[d] = Pad2(t)[d] \/ Pad2(s)[d] = 1 \/ Pad2(t)[d] = 1

\* the shape two shapes broadcast to
BShape(s, t) ==
  LET r == [d \in 1..2 |-> Max(Pad2(s)[d], Pad2(t)[d])]
      k == Max(Len(s), Len(t))
  IN  IF k = 0 THEN <<>> ELSE IF k = 1 THEN <<r[2]>> ELSE r

\* the element of x that lands at position k of a tensor of shape r
At(x, r, k) ==
  LET p == Pad2(r)
      q == Pad2(x.shape)
      i == ((k - 1) \div p[2]) + 1
      j == ((k - 1) % p[2]) + 1
      ii == IF q[1] = 1 THEN 1 ELSE i
      jj == IF q[2] = 1 THEN 1 ELSE j
  IN  x.v[(ii - 1) * q[2] + jj]

\* an elementwise binary operation with broadcasting
Zip(Op(_, _), x, y) ==
  IF x = Raised \/ y = Raised \/ ~Broadcastable(x.shape, y.shape) THEN Raised
  ELSE LET r == BShape(x.shape, y.shape)
       IN  Tensor(r, [k \in 1..Prod(r) |-> Op(At(x, r, k), At(y, r, k))])

\* an elementwise unary operation
Map(Op(_), x) ==
  IF x = Raised THEN Raised
  ELSE Tensor(x.shape, [k \in 1..Len(x.v) |-> Op(x.v[k])])

TAdd(x, y) == Zip(Add, x, y)

TSub(x, y) == Zip(Sub, x, y)

TMul(x, y) == Zip(Mul, x, y)

TDiv(x, y) == Zip(Div, x, y)

RECURSIVE SumSeq(_)
SumSeq(s) == IF s = <<>> THEN Num(0) ELSE Add(Head(s), SumSeq(Tail(s)))

\* x.ravel() and t.reshape(shape)
Ravel(x) == IF x = Raised THEN Raised ELSE Tensor(<<Len(x.v)>>, x.v)

Reshape(x, shape) ==
  IF x = Raised \/ Len(x.v) # Prod(shape) THEN Raised ELSE Tensor(shape, x.v)

\* torch.sum(x, dim = every axis but the first)
SumNonBatch(x) ==
  IF x = Raised \/ Len(x.shape) < 2 THEN x
  ELSE LET S == x.shape[2]
       IN  Tensor(<<x.shape[1]>>,
                  [b \in 1..x.shape[1] |-> SumSeq(SubSeq(x.v, (b - 1) * S + 1, b * S))])

\* ------------------------------------------------------------------- state
VARIABLES
  propagate_density,  \* Module_._propagate_density, the density reduction mode
  mask,               \* the run's Mask object: one 0/1 flag per site (1: active)
  net,                \* the module instance under test (and the one wrappers wrap)
  wrappers,           \* the MaskedWrapperNet_ objects, in order of construction
  call,               \* the most recent forward/backward call and what it returned
  dc,                 \* a DistConvertor_: its options and its module list
  dcall               \* the most recent call on dc and what it returned

vars == <<propagate_density, mask, net, wrappers, call, dc, dcall>>

\* ----------------------------------------------------------------- Module_
\* Module_.sum_density as an instance attribute holds either the class's method
\* ("original") or the lambda x: x a wrapper installed ("identity").
SumDensity(sd, x) ==
  IF sd = "identity" THEN x
  ELSE IF propagate_density THEN x
  ELSE SumNonBatch(x)

\* a module as constructed: its class, its label, its parameter (logw, w, or
\* len(spline_shape)) and its sum_density attribute
NewModule(cls, label, param) ==
  [cls |-> cls, label |-> label, n |-> param, sum_density |-> "original"]

Result(y, log) == [y |-> y, log |-> log]

\* ------------------------------------------------------ Identity_ and Clone_
Identity_forward(self, x, log0) == Result(x, log0)

Identity_backward(self, x, log0) == Result(x, log0)

Clone_forward(self, x, log0) == Result(Tensor(x.shape, x.v), log0)

Clone_backward(self, x, log0) == Result(Tensor(x.shape, x.v), log0)

\* ---------------------------------------------------------------- ScaleNet_
\* self.logw, a parameter of shape (1,)
Logw(self) == Tensor(<<1>>, <<Num(self.n)>>)

\* a slip: the scalar mode's branch forgets the reduction and fills x's shape
ScaleNet_log_jacobian_unreduced(self, x_shape) ==
  TMul(Logw(self), Ones(x_shape))

ScaleNet_log_jacobian(self, x_shape) ==
  IF propagate_density
    THEN TMul(Logw(self), Ones(x_shape))
    ELSE LET logwscaled == TMul(Logw(self), Scalar(Num(Prod(Tail(x_shape)))))
         IN  TMul(logwscaled, Ones(<<x_shape[1]>>))

ScaleNet_forward(self, x, log0) ==
  Result(TMul(x, Map(Exp, Logw(self))),
         TAdd(log0, ScaleNet_log_jacobian(self, x.shape)))

\* a slip: backward adds the Jacobian term as forward does
ScaleNet_backward_adds(self, x, log0) ==
  Result(TDiv(x, Map(Exp, Logw(self))),
         TAdd(log0, ScaleNet_log_jacobian(self, x.shape)))

ScaleNet_backward(self, x, log0) ==
  Result(TDiv(x, Map(Exp, Logw(self))),
         TSub(log0, ScaleNet_log_jacobian(self, x.shape)))

\* ------------------------------------------------------- Tanh_ and ArcTanh_
LogCosh(t) == Log(Cosh(t))

Tanh_forward(self, x, log0) ==
  LET logJ == TMul(Scalar(Num(0 - 2)), SumDensity(self.sum_density, Map(LogCosh, x)))
  IN  Result(Map(TanhOf, x), TAdd(log0, logJ))

ArcTanh_forward(self, x, log0) ==
  LET y == Map(AtanhOf, x)
      logJ == TMul(Scalar(Num(2)), SumDensity(self.sum_density, Map(LogCosh, y)))
  IN  Result(y, TAdd(log0, logJ))

\* ArcTanh_() and Tanh_(): a fresh instance, made for the one call
Tanh_backward(self, x, log0) ==
  ArcTanh_forward(NewModule("ArcTanh_", "none", 0), x, log0)

ArcTanh_backward(self, x, log0) ==
  Tanh_forward(NewModule("Tanh_", "none", 0), x, log0)

\* -------------------------------------------------------- Expit_ and Logit_
\* 1/(1 + exp(-x))
ExpitOf(t) == Div(Num(1), Add(Num(1), Exp(Neg(t))))

\* log(x/(1 - x))
LogitOf(t) == Log(Div(t, Sub(Num(1), t)))

\* log(x * (1 - x))
LogXOneMinusX(t) == Log(Mul(t, Sub(Num(1), t)))

TwoLog(t) == Mul(Num(2), Log(t))

Expit_forward(self, x, log0) ==
  LET y == Map(ExpitOf, x)
      logJ == SumDensity(self.sum_density, TAdd(Map(Neg, x), Map(TwoLog, y)))
  IN  Result(y, TAdd(log0, logJ))

Logit_forward(self, x, log0) ==
  LET y == Map(LogitOf, x)
      logJ == Map(Neg, SumDensity(self.sum_density, Map(LogXOneMinusX, x)))
  IN  Result(y, TAdd(log0, logJ))

Expit_backward(self, x, log0) ==
  Logit_forward(NewModule("Logit_", "none", 0), x, log0)

Logit_backward(self, x, log0) ==
  Expit_forward(NewModule("Expit_", "none", 0), x, log0)

\* --------------------------------------------------------------- SplineNet_
\* The spline evaluator made by make_spline: spline(x, grad=True) and
\* spline.backward(x, grad=True) give the value and the gradient at each element.
SplineEval(t) == Term("spline", <<t>>)

SplineGrad(t) == Term("spline_grad", <<t>>)

SplineInvEval(t) == Term("spline_backward", <<t>>)

SplineInvGrad(t) == Term("spline_backward_grad", <<t>>)

\* self.n is len(self.spline_shape)
SplineNet_forward(self, x, log0) ==
  LET fx == IF self.n > 0 THEN Map(SplineEval, x)
            ELSE Reshape(Map(SplineEval, Ravel(x)), x.shape)
      g  == IF self.n > 0 THEN Map(SplineGrad, x)
            ELSE Reshape(Map(SplineGrad, Ravel(x)), x.shape)
      logJ == SumDensity(self.sum_density, Map(Log, g))
  IN  Result(fx, TAdd(log0, logJ))

SplineNet_backward(self, x, log0) ==
  LET fx == IF self.n > 0 THEN Map(SplineInvEval, x)
            ELSE Reshape(Map(SplineInvEval, Ravel(x)), x.shape)
      g  == IF self.n > 0 THEN Map(SplineInvGrad, x)
            ELSE Reshape(Map(SplineInvGrad, Ravel(x)), x.shape)
      logJ == SumDensity(self.sum_density, Map(Log, g))
  IN  Result(fx, TAdd(log0, logJ))

\* -------------------------------------------------------------- SgnBiasNet_
\* self.w, a parameter of shape (1,) (size=[1])
W(self) == Tensor(<<1>>, <<Num(self.n)>>)

Square(t) == Mul(t, t)

\* a slip: the bias is w, which may be negative, not w**2
SgnBiasNet_forward_unsquared(self, x, log0) ==
  Result(TAdd(x, TMul(Map(Sgn, x), W(self))), log0)

SgnBiasNet_forward(self, x, log0) ==
  Result(TAdd(x, TMul(Map(Sgn, x), Map(Square, W(self)))), log0)

SgnBiasNet_backward(self, x, log0) ==
  Result(TSub(x, TMul(Map(Sgn, x), Map(Square, W(self)))), log0)

\* ------------------------------------------------- forward and backward of a module
ModuleForward(self, x, log0) ==
  CASE self.cls = "Identity_"   -> Identity_forward(self, x, log0)
    [] self.cls = "Clone_"      -> Clone_forward(self, x, log0)
    [] self.cls = "ScaleNet_"   -> ScaleNet_forward(self, x, log0)
    [] self.cls = "Tanh_"       -> Tanh_forward(self, x, log0)
    [] self.cls = "ArcTanh_"    -> ArcTanh_forward(self, x, log0)
    [] self.cls = "Expit_"      -> Expit_forward(self, x, log0)
    [] self.cls = "Logit_"      -> Logit_forward(self, x, log0)
    [] self.cls = "SplineNet_"  -> SplineNet_forward(self, x, log0)
    [] self.cls = "SgnBiasNet_" -> SgnBiasNet_forward(self, x, log0)

ModuleBackward(self, x, log0) ==
  CASE self.cls = "Identity_"   -> Identity_backward(self, x, log0)
    [] self.cls = "Clone_"      -> Clone_backward(self, x, log0)
    [] self.cls = "ScaleNet_"   -> ScaleNet_backward(self, x, log0)
    [] self.cls = "Tanh_"       -> Tanh_backward(self, x, log0)
    [] self.cls = "ArcTanh_"    -> ArcTanh_backward(self, x, log0)
    [] self.cls = "Expit_"      -> Expit_backward(self, x, log0)
    [] self.cls = "Logit_"      -> Logit_backward(self, x, log0)
    [] self.cls = "SplineNet_"  -> SplineNet_backward(self, x, log0)
    [] self.cls = "SgnBiasNet_" -> SgnBiasNet_backward(self, x, log0)

\* --------------------------------------------------------------------- Mask
\* A Mask (self) is one 0/1 flag per site (1: active), the same for every batch
\* item: split and purify zero the other lanes, cat adds the two parts.
MaskTensor(self) == Tensor(<<Len(self)>>, [i \in 1..Len(self) |-> Num(self[i])])

MaskComplement(self) == [i \in 1..Len(self) |-> 1 - self[i]]

Mask_split(self, x) ==
  [active |-> TMul(MaskTensor(self), x),
   frozen |-> TMul(MaskTensor(MaskComplement(self)), x)]

Mask_purify(self, x_chnl, channel) ==
  TMul(MaskTensor(IF channel = 0 THEN self ELSE MaskComplement(self)), x_chnl)

Mask_cat(self, x_0, x_1) == TAdd(x_0, x_1)

\* -------------------------------------------------------- MaskedWrapperNet_
\* What a wrapper call returns, and the density the inner module handed to it.
\* A step that raises ends the call: nothing is returned.
WrapperResult(y, log, inner) ==
  IF y = Raised \/ log = Raised
    THEN [y |-> Raised, log |-> Raised, inner |-> inner]
    ELSE [y |-> y, log |-> log, inner |-> inner]

\* a slip: the inner module's output is not purified before cat
MaskedWrapperNet_forward_unpurified(self, x, log0) ==
  LET parts == Mask_split(self.mask, x)
      r == ModuleForward(net, parts.active, Scalar(Num(0)))
      logJ == SumDensity(self.original_net_sum_density,
                         Mask_purify(self.mask, r.log, 0))
  IN  WrapperResult(Mask_cat(self.mask, r.y, parts.frozen),
                    TAdd(log0, logJ), r.log)

MaskedWrapperNet_forward(self, x, log0) ==
  LET parts == Mask_split(self.mask, x)
      r == ModuleForward(net, parts.active, Scalar(Num(0)))
      x_active == Mask_purify(self.mask, r.y, 0)
      logJ == SumDensity(self.original_net_sum_density,
                         Mask_purify(self.mask, r.log, 0))
  IN  WrapperResult(Mask_cat(self.mask, x_active, parts.frozen),
                    TAdd(log0, logJ), r.log)

MaskedWrapperNet_backward(self, x, log0) ==
  LET parts == Mask_split(self.mask, x)
      r == ModuleBackward(net, parts.active, Scalar(Num(0)))
      x_active == Mask_purify(self.mask, r.y, 0)
      logJ == SumDensity(self.original_net_sum_density,
                         Mask_purify(self.mask, r.log, 0))
  IN  WrapperResult(Mask_cat(self.mask, x_active, parts.frozen),
                    TAdd(log0, logJ), r.log)

\* __init__: the wrapper made, and the inner module as the constructor leaves it
MaskedWrapperNet_init(net_, mask_) ==
  [self |-> [label |-> <<"wrapper", net_.label>>,
             net_ |-> "net",
             mask |-> mask_,
             original_net_sum_density |-> net_.sum_density],
   net_ |-> [net_ EXCEPT !.sum_density = "identity"]]

\* ------------------------------------------------------------ inputs drawn
\* elements o, o+1, ... in row-major order: negative, zero and positive values
Offsets == {0 - 1, 0, 1}

Sample(B, S, o) == Tensor(<<B, S>>, [k \in 1..(B * S) |-> Num(o + k - 1)])

\* the samples of the run have one element per site of its mask
Samples == {Sample(B, Len(mask), o) : B \in 1..MaxBatch, o \in Offsets}

\* the shape a log-density has in the current mode for a sample x
DensityShape(x) == IF propagate_density THEN x.shape ELSE <<x.shape[1]>>

Zero == Scalar(Num(0))

\* an incoming log0: the default 0, another number, an array of the mode's shape
Log0s(x) == {Zero, Scalar(Num(3)), Full(DensityShape(x), Num(2))}

LogwValues == {0 - 1, 0, 1}

WValues == {0 - 1, 0, 2}

Modules ==
  {NewModule("Identity_", "identity_", 0), NewModule("Clone_", "clone_", 0),
   NewModule("Tanh_", "tanh_", 0), NewModule("ArcTanh_", "arctanh_", 0),
   NewModule("Expit_", "expit_", 0), NewModule("Logit_", "logit_", 0)}
  \cup {NewModule("ScaleNet_", "scale_", k) : k \in LogwValues}
  \cup {NewModule("SgnBiasNet_", "sgnbias_", k) : k \in WValues}
  \cup {NewModule("SplineNet_", "spline_", k) : k \in {0, 1}}

\* the masks drawn: every choice of active sites, for every number of sites
Masks == UNION {[1..S -> {0, 1}] : S \in 1..MaxSites}

NoCall ==
  [op |-> "none", w |-> 0, rt |-> FALSE, x |-> Zero, log0 |-> Zero,
   y |-> Zero, log |-> Zero, inner |-> Zero, x0 |-> Zero, log00 |-> Zero]

NoDC == [knots_len |-> 0, symmetric |-> FALSE, sgnbias |-> FALSE,
         initial_scale |-> FALSE, final_scale |-> FALSE, label |-> "dc_",
         nets_ |-> <<>>]

NoDCall == [op |-> "none", found |-> 0, through |-> <<>>, raised |-> FALSE,
            cdf |-> Zero, ret |-> Result(Zero, Zero)]

\* ------------------------------------------------- the modules and wrappers
Init ==
  /\ propagate_density \in BOOLEAN
  /\ mask \in Masks
  /\ net \in Modules
  /\ wrappers = <<>>
  /\ call = NoCall
  /\ dc = NoDC
  /\ dcall = NoDCall

\* net.forward(x, log0)
Forward ==
  /\ call = NoCall
  /\ \E x \in Samples : \E log0 \in Log0s(x) :
       LET r == ModuleForward(net, x, log0)
       IN  /\ call' = [op |-> "forward", w |-> 0, rt |-> FALSE, x |-> x, log0 |-> log0,
                       y |-> r.y, log |-> r.log, inner |-> Zero,
                       x0 |-> x, log00 |-> log0]
           /\ UNCHANGED <<propagate_density, mask, net, wrappers, dc, dcall>>

\* net.backward(x): a call of its own, with the default log0
Backward ==
  /\ call = NoCall
  /\ \E x \in Samples :
       LET r == ModuleBackward(net, x, Zero)
       IN  /\ call' = [op |-> "backward", w |-> 0, rt |-> FALSE, x |-> x, log0 |-> Zero,
                       y |-> r.y, log |-> r.log, inner |-> Zero,
                       x0 |-> x, log00 |-> Zero]
           /\ UNCHANGED <<propagate_density, mask, net, wrappers, dc, dcall>>

\* net.backward(*net.forward(x, log0)): backward on what forward just returned
BackwardOfForward ==
  /\ call.op = "forward"
  /\ call.y # Raised /\ call.log # Raised
  /\ LET r == ModuleBackward(net, call.y, call.log)
     IN  call' = [op |-> "backward", w |-> 0, rt |-> TRUE, x |-> call.y,
                  log0 |-> call.log, y |-> r.y, log |-> r.log, inner |-> Zero,
                  x0 |-> call.x0, log00 |-> call.log00]
  /\ UNCHANGED <<propagate_density, mask, net, wrappers, dc, dcall>>

\* MaskedWrapperNet_(net, mask=mask)
Wrap ==
  /\ call = NoCall
  /\ Len(wrappers) < MaxWrappers
  /\ LET made == MaskedWrapperNet_init(net, mask)
     IN  /\ wrappers' = Append(wrappers, made.self)
         /\ net' = made.net_
  /\ UNCHANGED <<propagate_density, mask, call, dc, dcall>>

\* wrappers[w].forward(x, log0)
WrapperForward ==
  /\ call = NoCall
  /\ \E w \in 1..Len(wrappers) : \E x \in Samples : \E log0 \in {Zero, Scalar(Num(3))} :
       LET r == MaskedWrapperNet_forward(wrappers[w], x, log0)
       IN  /\ call' = [op |-> "w_forward", w |-> w, rt |-> FALSE, x |-> x, log0 |-> log0,
                       y |-> r.y, log |-> r.log, inner |-> r.inner,
                       x0 |-> x, log00 |-> log0]
           /\ UNCHANGED <<propagate_density, mask, net, wrappers, dc, dcall>>

\* wrappers[w].backward(x): a call of its own, with the default log0
WrapperBackward ==
  /\ call = NoCall
  /\ \E w \in 1..Len(wrappers) : \E x \in Samples :
       LET r == MaskedWrapperNet_backward(wrappers[w], x, Zero)
       IN  /\ call' = [op |-> "w_backward", w |-> w, rt |-> FALSE, x |-> x, log0 |-> Zero,
                       y |-> r.y, log |-> r.log, inner |-> r.inner,
                       x0 |-> x, log00 |-> Zero]
           /\ UNCHANGED <<propagate_density, mask, net, wrappers, dc, dcall>>

\* the same wrapper's backward on what its forward just returned
WrapperBackwardOfForward ==
  /\ call.op = "w_forward"
  /\ call.y # Raised
  /\ LET r == MaskedWrapperNet_backward(wrappers[call.w], call.y, call.log)
     IN  call' = [op |-> "w_backward", w |-> call.w, rt |-> TRUE, x |-> call.y,
                  log0 |-> call.log, y |-> r.y, log |-> r.log, inner |-> r.inner,
                  x0 |-> call.x0, log00 |-> call.log00]
  /\ UNCHANGED <<propagate_density, mask, net, wrappers, dc, dcall>>

\* the caller drops what the last call returned
Discard ==
  /\ call # NoCall
  /\ call' = NoCall
  /\ UNCHANGED <<propagate_density, mask, net, wrappers, dc, dcall>>

Next ==
  \/ Forward
  \/ Backward
  \/ BackwardOfForward
  \/ Wrap
  \/ WrapperForward
  \/ WrapperBackward
  \/ WrapperBackwardOfForward
  \/ Discard

Spec == Init /\ [][Next]_vars

\* ----------------------------------------------------------- DistConvertor_
\* SplineNet_(knots_len, label=label, **extra): the module and what it was given
SplineNet_init(knots_len, label, extra) ==
  [cls |-> "SplineNet_", label |-> label, n |-> 0, sum_density |-> "original",
   knots_len |-> knots_len, extra |-> extra]

\* a slip: the SgnBiasNet_ is put in before the scale, which then lands ahead of it
DistConvertor_init_scale_last(knots_len, symmetric, label, sgnbias, initial_scale, final_scale, w) ==
  LET extra == IF symmetric
                 THEN [xlim |-> <<"0.5", "1">>, ylim |-> <<"0.5", "1">>, extrap |-> "left:anti"]
                 ELSE [xlim |-> <<"0", "1">>, ylim |-> <<"0", "1">>, extrap |-> "none"]
      nets_1 == IF knots_len > 1
                  THEN <<NewModule("Expit_", "expit_", 0),
                         SplineNet_init(knots_len, "spline_", extra),
                         NewModule("Logit_", "logit_", 0)>>
                  ELSE <<>>
      nets_2 == IF sgnbias THEN <<NewModule("SgnBiasNet_", "sgnbias_", w)>> \o nets_1
                ELSE nets_1
      nets_3 == IF initial_scale THEN <<NewModule("ScaleNet_", "scale_", 0)>> \o nets_2
                ELSE IF final_scale THEN nets_2 \o <<NewModule("ScaleNet_", "scale_", 0)>>
                ELSE nets_2
  IN  [knots_len |-> knots_len, symmetric |-> symmetric, sgnbias |-> sgnbias,
       initial_scale |-> initial_scale, final_scale |-> final_scale,
       label |-> label, nets_ |-> nets_3]

\* __init__: the options kept for reference, and the module list handed to
\* ModuleList_ (w is the value SgnBiasNet_ draws for its parameter)
DistConvertor_init(knots_len, symmetric, label, sgnbias, initial_scale, final_scale, w) ==
  LET extra == IF symmetric
                 THEN [xlim |-> <<"0.5", "1">>, ylim |-> <<"0.5", "1">>, extrap |-> "left:anti"]
                 ELSE [xlim |-> <<"0", "1">>, ylim |-> <<"0", "1">>, extrap |-> "none"]
      nets_1 == IF knots_len > 1
                  THEN <<NewModule("Expit_", "expit_", 0),
                         SplineNet_init(knots_len, "spline_", extra),
                         NewModule("Logit_", "logit_", 0)>>
                  ELSE <<>>
      nets_2 == IF initial_scale THEN <<NewModule("ScaleNet_", "scale_", 0)>> \o nets_1
                ELSE IF final_scale THEN nets_1 \o <<NewModule("ScaleNet_", "scale_", 0)>>
                ELSE nets_1
      nets_3 == IF sgnbias THEN <<NewModule("SgnBiasNet_", "sgnbias_", w)>> \o nets_2
                ELSE nets_2
  IN  [knots_len |-> knots_len, symmetric |-> symmetric, sgnbias |-> sgnbias,
       initial_scale |-> initial_scale, final_scale |-> final_scale,
       label |-> label, nets_ |-> nets_3]

\* for net_ in self: if net_.label == label: return net_
\* (the index of the module returned; 0 is None, the loop ended without a return)
FirstLabelled(self, label) ==
  IF \E i \in 1..Len(self.nets_) : self.nets_[i].label = label
    THEN CHOOSE i \in 1..Len(self.nets_) :
           /\ self.nets_[i].label = label
           /\ \A j \in 1..(i - 1) : self.nets_[j].label # label
    ELSE 0

DistConvertor_get_spline_(self) == FirstLabelled(self, "spline_")

DistConvertor_get_scale_(self) == FirstLabelled(self, "scale_")

DistConvertor_get_sgnbias_(self) == FirstLabelled(self, "sgnbias_")

\* a slip: self(cdf), the whole module list, instead of self.get_spline_(cdf)
DistConvertor_cdf_mapper_whole_list(self, cdf) ==
  [through |-> [i \in 1..Len(self.nets_) |-> i], raised |-> FALSE,
   ret |-> Result(cdf, Zero)]

\* self.get_spline_(cdf): calling a module runs its forward; calling None raises
DistConvertor_cdf_mapper(self, cdf) ==
  LET i == DistConvertor_get_spline_(self)
  IN  IF i = 0
        THEN [through |-> <<>>, raised |-> TRUE, ret |-> Result(Raised, Raised)]
        ELSE [through |-> <<i>>, raised |-> FALSE,
              ret |-> ModuleForward(self.nets_[i], cdf, Zero)]

Half == Div(Num(1), Num(2))

\* cumulative probabilities in [0, 1]
Cdfs == {Tensor(<<2>>, <<Num(0), Half>>), Tensor(<<2>>, <<Half, Num(1)>>),
         Tensor(<<1>>, <<Half>>)}

InitDC ==
  /\ propagate_density \in BOOLEAN
  /\ mask = <<1>>
  /\ net = NewModule("Identity_", "identity_", 0)
  /\ wrappers = <<>>
  /\ call = NoCall
  /\ \E knots_len \in 0..MaxKnots :
       \E symmetric \in BOOLEAN, sgnbias \in BOOLEAN, initial_scale \in BOOLEAN,
          final_scale \in BOOLEAN, w \in WValues :
         dc = DistConvertor_init(knots_len, symmetric, "dc_", sgnbias,
                                 initial_scale, final_scale, IF sgnbias THEN w ELSE 0)
  /\ dcall = NoDCall

CdfMapper ==
  /\ dcall = NoDCall
  /\ \E cdf \in Cdfs :
       LET r == DistConvertor_cdf_mapper(dc, cdf)
       IN  dcall' = [op |-> "cdf_mapper", found |-> 0, through |-> r.through,
                     raised |-> r.raised, cdf |-> cdf, ret |-> r.ret]
  /\ UNCHANGED <<propagate_density, mask, net, wrappers, call, dc>>

GetSpline ==
  /\ dcall = NoDCall
  /\ dcall' = [NoDCall EXCEPT !.op = "get_spline_",
                              !.found = DistConvertor_get_spline_(dc)]
  /\ UNCHANGED <<propagate_density, mask, net, wrappers, call, dc>>

GetScale ==
  /\ dcall = NoDCall
  /\ dcall' = [NoDCall EXCEPT !.op = "get_scale_",
                              !.found = DistConvertor_get_scale_(dc)]
  /\ UNCHANGED <<propagate_density, mask, net, wrappers, call, dc>>

GetSgnbias ==
  /\ dcall = NoDCall
  /\ dcall' = [NoDCall EXCEPT !.op = "get_sgnbias_",
                              !.found = DistConvertor_get_sgnbias_(dc)]
  /\ UNCHANGED <<propagate_density, mask, net, wrappers, call, dc>>

\* the caller drops what the last call on dc returned
DiscardDC ==
  /\ dcall # NoDCall
  /\ dcall' = NoDCall
  /\ UNCHANGED <<propagate_density, mask, net, wrappers, call, dc>>

NextDC ==
  \/ CdfMapper
  \/ GetSpline
  \/ GetScale
  \/ GetSgnbias
  \/ DiscardDC

SpecDC == InitDC /\ [][NextDC]_vars

\* ================================================================== claims
Classes(nets_) == [i \in 1..Len(nets_) |-> nets_[i].cls]

\* the modules that compute a Jacobian term
JacobianClasses == {"ScaleNet_", "Tanh_", "ArcTanh_", "Expit_", "Logit_", "SplineNet_"}

\* C1: for knots_len > 1 the module list is, in order, SgnBiasNet_ if sgnbias,
\* ScaleNet_ if initial_scale, Expit_, SplineNet_, Logit_, ScaleNet_ if final_scale
\* (so two ScaleNet_ when initial_scale and final_scale are both true).
C1_AssembledOrder ==
  dc.knots_len > 1 =>
    Classes(dc.nets_) =
      (IF dc.sgnbias THEN <<"SgnBiasNet_">> ELSE <<>>)
      \o (IF dc.initial_scale THEN <<"ScaleNet_">> ELSE <<>>)
      \o <<"Expit_", "SplineNet_", "Logit_">>
      \o (IF dc.final_scale THEN <<"ScaleNet_">> ELSE <<>>)

\* C2: in wrapper.forward and wrapper.backward, for each inner module that computes
\* a Jacobian term and in either mode, the density the inner module hands back has
\* the shape of the active input: it has not been reduced before purify.
C2_InnerDensityUnreduced ==
  (call.op \in {"w_forward", "w_backward"} /\ net.cls \in JacobianClasses) =>
    call.inner.shape = Mask_split(wrappers[call.w].mask, call.x).active.shape

\* C3: every wrapper's original_net_sum_density is the inner module's original
\* sum_density, never the identity a wrapper installed.
C3_OriginalReduction ==
  \A i \in 1..Len(wrappers) : wrappers[i].original_net_sum_density = "original"

\* the Jacobian term of ScaleNet_ for a sample x: logw per element, or logw times
\* the number of non-batch elements per batch item
ScaleL(x) ==
  IF propagate_density THEN Full(x.shape, Num(net.n))
  ELSE Full(<<x.shape[1]>>, Num(net.n * Prod(Tail(x.shape))))

\* C4: ScaleNet_.forward adds L to log0, backward on forward's result subtracts the
\* same L and returns the original log0 (broadcast to L's shape); with logw = 0
\* forward returns y == x and adds 0.
C4_ScaleRoundTrip ==
  net.cls = "ScaleNet_" =>
    /\ call.op = "forward" =>
         /\ call.log = TAdd(call.log0, ScaleL(call.x))
         /\ net.n = 0 => /\ call.y = call.x
                         /\ call.log = TAdd(call.log0, Full(DensityShape(call.x), Num(0)))
    /\ (call.op = "backward" /\ call.rt) =>
         /\ call.log = TSub(call.log0, ScaleL(call.x))
         /\ call.log = TAdd(call.log00, Full(DensityShape(call.x0), Num(0)))

C4_Witness ==
  /\ net.cls = "ScaleNet_" /\ net.n # 0
  /\ call.op = "backward" /\ call.rt
  /\ ~propagate_density
  /\ call.x0.shape = <<2, 2>>
  /\ call.log00 = Scalar(Num(3))
  /\ call.log0 # call.log00

\* C5 as stated: forward(x) with the default log0 returns, for every module, a
\* log-density of x's shape in per-element mode and of batch-size shape in scalar mode.
C5_DensityShapeEveryModule ==
  (call.op = "forward" /\ call.log0 = Zero /\ net.sum_density = "original") =>
    call.log.shape = DensityShape(call.x)

\* C5 amended: that holds for the modules that compute a Jacobian term; Identity_,
\* Clone_ and SgnBiasNet_ return the incoming log0, the number 0, as it is.
C5_DensityShape ==
  (call.op = "forward" /\ call.log0 = Zero /\ net.sum_density = "original") =>
    IF net.cls \in JacobianClasses
      THEN call.log.shape = DensityShape(call.x)
      ELSE call.log = Zero

C5_Witness ==
  /\ call.op = "forward" /\ call.log0 = Zero /\ net.sum_density = "original"
  /\ net.cls = "ScaleNet_" /\ ~propagate_density
  /\ call.x.shape = <<2, 2>> /\ call.log.shape = <<2>>

\* the positions of a sample that the wrapper's mask marks frozen
FrozenPositions(w, x) ==
  {k \in 1..Len(x.v) : wrappers[w].mask[((k - 1) % Len(wrappers[w].mask)) + 1] = 0}

\* C6: the frozen elements have the same values in x, in wrapper.forward(x), and in
\* wrapper.backward of that forward output.
C6_FrozenUntouched ==
  /\ (call.op = "w_forward" /\ call.y # Raised) =>
       /\ call.y.shape = call.x.shape
       /\ \A k \in FrozenPositions(call.w, call.x) : call.y.v[k] = call.x.v[k]
  /\ (call.op = "w_backward" /\ call.rt /\ call.y # Raised) =>
       /\ call.y.shape = call.x0.shape
       /\ \A k \in FrozenPositions(call.w, call.x0) :
            call.x.v[k] = call.x0.v[k] /\ call.y.v[k] = call.x0.v[k]

C6_Witness ==
  /\ call.op = "w_backward" /\ call.rt /\ call.y # Raised
  /\ net.cls = "Expit_"
  /\ \E k \in FrozenPositions(call.w, call.x0) : call.x0.v[k] # Num(0)
  /\ \E k \in 1..Len(call.x0.v) :
       k \notin FrozenPositions(call.w, call.x0) /\ call.x.v[k] # call.x0.v[k]

\* C7: SgnBiasNet_.forward gives y = x + sign(x)*w^2 and leaves log0; backward on
\* forward's result returns x and the original log0, sign(y) being sign(x).
C7_SgnBiasRoundTrip ==
  net.cls = "SgnBiasNet_" =>
    /\ call.op = "forward" =>
         /\ call.log = call.log0
         /\ \A k \in 1..Len(call.x.v) :
              call.y.v[k] = Num(call.x.v[k].n + Sgn(call.x.v[k]).n * net.n * net.n)
    /\ (call.op = "backward" /\ call.rt) =>
         /\ call.y = call.x0
         /\ call.log = call.log00
         /\ \A k \in 1..Len(call.x.v) : Sgn(call.x.v[k]) = Sgn(call.x0.v[k])

C7_Witness ==
  /\ net.cls = "SgnBiasNet_" /\ net.n # 0
  /\ call.op = "backward" /\ call.rt
  /\ \E k \in 1..Len(call.x0.v) : call.x0.v[k].n < 0
  /\ \E k \in 1..Len(call.x0.v) : call.x0.v[k].n = 0
  /\ \E k \in 1..Len(call.x0.v) : call.x0.v[k].n > 0
  /\ call.x # call.x0

\* where the spline stage sits in a module list that has one
SplinePosition == (IF dc.sgnbias THEN 1 ELSE 0) + (IF dc.initial_scale THEN 1 ELSE 0) + 2

\* C8 as stated: for every configuration cdf_mapper passes cdf through exactly one
\* stage, the first module labelled 'spline_'.
C8_CdfMapperOneStage ==
  dcall.op = "cdf_mapper" =>
    /\ ~dcall.raised
    /\ Len(dcall.through) = 1
    /\ dc.nets_[dcall.through[1]].label = "spline_"

\* C8 amended: with knots_len > 1 cdf_mapper passes cdf through the first module
\* labelled 'spline_', a SplineNet_, and no other stage; with knots_len <= 1 the
\* accessor gives None and cdf_mapper raises, mapping nothing.
C8_CdfMapperSplineOnly ==
  /\ dcall.op = "cdf_mapper" =>
       IF dc.knots_len > 1
         THEN /\ ~dcall.raised
              /\ dcall.through = <<SplinePosition>>
              /\ dc.nets_[SplinePosition].cls = "SplineNet_"
              /\ dc.nets_[SplinePosition].label = "spline_"
              /\ \A j \in 1..(SplinePosition - 1) : dc.nets_[j].label # "spline_"
              /\ dcall.ret = SplineNet_forward(dc.nets_[SplinePosition], dcall.cdf, Zero)
         ELSE /\ dcall.raised
              /\ dcall.through = <<>>
              /\ \A j \in 1..Len(dc.nets_) : dc.nets_[j].label # "spline_"
  /\ dcall.op = "get_spline_" =>
       dcall.found = IF dc.knots_len > 1 THEN SplinePosition ELSE 0

C8_Witness ==
  /\ dcall.op = "cdf_mapper" /\ ~dcall.raised
  /\ dc.sgnbias /\ dc.initial_scale
  /\ dcall.through = <<4>>

\* C9: with sgnbias the list holds exactly one SgnBiasNet_, at index 0 (the first
\* place); without it the list holds none and get_sgnbias_ returns None.
C9_SgnBiasFirst ==
  LET at == {i \in 1..Len(dc.nets_) : dc.nets_[i].cls = "SgnBiasNet_"}
  IN  /\ dc.sgnbias => at = {1}
      /\ ~dc.sgnbias => at = {} /\ DistConvertor_get_sgnbias_(dc) = 0
      /\ dcall.op = "get_sgnbias_" => dcall.found = IF dc.sgnbias THEN 1 ELSE 0

C9_Witness ==
  /\ dc.sgnbias /\ dc.initial_scale /\ dc.final_scale /\ dc.knots_len > 1
  /\ dcall.op = "get_sgnbias_" /\ dcall.found = 1

\* C10: once a wrapper has replaced the inner module's sum_density by the identity,
\* no step changes it back; forward and backward of a wrapper leave the inner module
\* and the wrappers' fields as they are; hence a wrapped module that computes a
\* Jacobian term, called directly in scalar mode, returns a per-element density.
C10_ReplacementPermanent ==
  [][/\ net.sum_density = "identity" => net'.sum_density = "identity"
     /\ call'.op \in {"w_forward", "w_backward"} =>
          net' = net /\ wrappers' = wrappers
     /\ (/\ call'.op = "forward" /\ call'.log0 = Zero
         /\ net'.sum_density = "identity" /\ net'.cls \in JacobianClasses
         /\ ~propagate_density) =>
          call'.log.shape = call'.x.shape]_vars

====
